---- MODULE Spec2Model ----
(***************************************************************************)
(* Plugin signature validation (pkg/plugins/manager/signature).            *)
(*                                                                         *)
(* The state is a tree of plugin descriptors (plugins.Plugin) and one      *)
(* Validator.  Validator.Validate(plugin) decides whether a plugin may be  *)
(* loaded and, for a nested plugin, copies the parent's signature fields   *)
(* into the plugin.                                                        *)
(*                                                                         *)
(*   Spec      sequential calls, every policy configuration                *)
(*   SpecTree  sequential calls on a whole tree, with the bookkeeping of   *)
(*             which descriptors were validated and in which order         *)
(*   SpecConc  concurrent calls, interleaved statement by statement        *)
(***************************************************************************)
EXTENDS Naturals, Sequences, FiniteSets

VARIABLES
    plugins,    \* descriptor table: Nodes -> plugins.Plugin
    cfg,        \* the Validator (cfg + allowUnsignedPluginsCondition)
    called,     \* plugin of the last completed sequential Validate call
    ret,        \* what that call returned
    validated,  \* descriptors Validate has been called on so far
    ordered,    \* every call so far came after a call on the plugin's parent
    pc,         \* concurrent calls: position of the call on each descriptor
    rets,       \* concurrent calls: value returned by each finished call
    raceFree,   \* no call has overlapped a call on the plugin's parent
    overlapped, \* some call started while another call was running
    init0       \* descriptor table before the first concurrent call

vars == <<plugins, cfg, called, ret, validated, ordered, pc, rets, raceFree, overlapped, init0>>

(***************************************************************************)
(* Bounds and value domains                                                *)
(***************************************************************************)
NumPlugins == 3

Nodes == 1..NumPlugins

\* plugin.Parent == nil
NoParent == 0

\* A *plugins.PluginSignatureError is the empty sequence (nil) or a sequence
\* holding the one error pointed to.
Nil == <<>>

SignatureValid == "valid"
SignatureInvalid == "invalid"
SignatureModified == "modified"
SignatureUnsigned == "unsigned"
SignatureInternal == "internal"

\* a SignatureStatus string that is none of the constants above
SignatureUnknown == "revoked"

\* zero value of SignatureStatus, left in the error of the default arm
ZeroStatus == ""

Statuses ==
    {SignatureValid, SignatureInvalid, SignatureModified, SignatureUnsigned,
     SignatureInternal, SignatureUnknown}

ClassCore == "core"
ClassBundled == "bundled"
ClassExternal == "external"

Classes == {ClassCore, ClassBundled, ClassExternal}

\* setting.Dev and a non-development environment
Dev == "development"
Prod == "production"

\* allowUnsignedPluginsCondition: nil, or a predicate on the plugin
NoCond == "nil"
CondAccept == "accept"
CondReject == "reject"

\* Signature type and organisation are opaque to the validator (it only
\* copies them), so each descriptor starts with values of its own.
TypeOf(n) == <<"type", n>>
OrgOf(n) == <<"org", n>>

Plugin(n, par, status, class) ==
    [ID |-> n, Parent |-> par, Class |-> class, Signature |-> status,
     SignatureType |-> TypeOf(n), SignatureOrg |-> OrgOf(n)]

\* the descriptors form a chain: plugin n is nested in plugin n - 1
ChainParent(n) == IF n = 1 THEN NoParent ELSE n - 1

\* trees rooted at plugin 1: plugin n is nested in plugin n - 1 or in the root
Shapes ==
    {par \in [Nodes -> {NoParent} \cup Nodes] :
        /\ par[1] = NoParent
        /\ \A n \in Nodes : n > 1 => par[n] \in {1, n - 1}}

Validators ==
    [cond : {NoCond, CondAccept, CondReject},
     Env : {Dev, Prod},
     PluginsAllowUnsigned : {<<>>, <<1>>, <<2>>, <<2, 1>>}]

DefaultValidator == [cond |-> NoCond, Env |-> Prod, PluginsAllowUnsigned |-> <<>>]

(***************************************************************************)
(* Validator.Validate and its helpers                                      *)
(***************************************************************************)
IsCorePlugin(plugin) == plugin.Class = ClassCore

IsBundledPlugin(plugin) == plugin.Class = ClassBundled

SignatureError(id, status) == <<[PluginID |-> id, SignatureStatus |-> status]>>

\* the caller-supplied predicate, applied to a plugin
CondResult(cond, plugin) == cond = CondAccept

RECURSIVE InList(_, _)
InList(list, id) ==
    IF list = <<>> THEN FALSE
    ELSE IF Head(list) = id THEN TRUE
    ELSE InList(Tail(list), id)

allowUnsigned_EnvFirst(s, plugin) ==
    IF s.Env = Dev THEN TRUE
    ELSE IF s.cond # NoCond THEN CondResult(s.cond, plugin)
    ELSE InList(s.PluginsAllowUnsigned, plugin.ID)

allowUnsigned(s, plugin) ==
    IF s.cond # NoCond THEN CondResult(s.cond, plugin)
    ELSE IF s.Env = Dev THEN TRUE
    ELSE InList(s.PluginsAllowUnsigned, plugin.ID)

StatusSwitch_InvalidAsUnsigned(s, plugin) ==
    IF plugin.Signature \in {SignatureUnsigned, SignatureInvalid, SignatureModified}
    THEN IF allowUnsigned(s, plugin) THEN Nil
         ELSE SignatureError(plugin.ID, plugin.Signature)
    ELSE SignatureError(plugin.ID, ZeroStatus)

StatusSwitch_FailOpen(s, plugin) ==
    CASE plugin.Signature = SignatureUnsigned ->
            IF allowUnsigned(s, plugin) THEN Nil
            ELSE SignatureError(plugin.ID, SignatureUnsigned)
      [] plugin.Signature = SignatureInvalid ->
            SignatureError(plugin.ID, SignatureInvalid)
      [] plugin.Signature = SignatureModified ->
            SignatureError(plugin.ID, SignatureModified)
      [] OTHER -> Nil

StatusSwitch(s, plugin) ==
    CASE plugin.Signature = SignatureUnsigned ->
            IF allowUnsigned(s, plugin) THEN Nil
            ELSE SignatureError(plugin.ID, SignatureUnsigned)
      [] plugin.Signature = SignatureInvalid ->
            SignatureError(plugin.ID, SignatureInvalid)
      [] plugin.Signature = SignatureModified ->
            SignatureError(plugin.ID, SignatureModified)
      [] OTHER -> SignatureError(plugin.ID, ZeroStatus)

Trusted_CoreOnly(plugin) == IsCorePlugin(plugin)

\* line 51: core and bundled plugins are allowed whatever their status
Trusted(plugin) == IsCorePlugin(plugin) \/ IsBundledPlugin(plugin)

AlreadyValid_Never(plugin) == FALSE

\* line 28: a valid signature is allowed at once
AlreadyValid(plugin) == plugin.Signature = SignatureValid

KeepsOwnSignature_CoreOnly(plugin) == IsCorePlugin(plugin)

\* line 35: a core or internal descendant keeps its own signature
KeepsOwnSignature(plugin) ==
    IsCorePlugin(plugin) \/ plugin.Signature = SignatureInternal

CopyField_IntoParent(P, p, f) ==
    [P EXCEPT ![P[p].Parent][f] = P[p][f]]

\* plugin.<f> = plugin.Parent.<f>
CopyField(P, p, f) ==
    [P EXCEPT ![p][f] = P[P[p].Parent][f]]

\* line 41
CopySignature(P, p) == CopyField(P, p, "Signature")

\* line 42
CopySignatureType(P, p) == CopyField(P, p, "SignatureType")

\* line 43
CopySignatureOrg(P, p) == CopyField(P, p, "SignatureOrg")

Inherit_NoOrg(P, p) == CopySignatureType(CopySignature(P, p), p)

Inherit_NoType(P, p) == CopySignatureOrg(CopySignature(P, p), p)

Inherit_IntoParent(P, p) ==
    [P EXCEPT ![P[p].Parent].Signature = P[p].Signature,
              ![P[p].Parent].SignatureType = P[p].SignatureType,
              ![P[p].Parent].SignatureOrg = P[p].SignatureOrg]

\* lines 41-43
Inherit(P, p) == CopySignatureOrg(CopySignatureType(CopySignature(P, p), p), p)

\* lines 51-84: the decision on the (possibly inherited) status
Decide(s, plugin) ==
    IF Trusted(plugin) THEN Nil ELSE StatusSwitch(s, plugin)

\* Validate as one sequential call: the table after the call and the result
Validate(s, P, p) ==
    IF AlreadyValid(P[p]) THEN [plugins |-> P, err |-> Nil]
    ELSE IF P[p].Parent # NoParent /\ ~KeepsOwnSignature(P[p])
    THEN LET Q == Inherit(P, p) IN
         IF Q[p].Signature = SignatureValid
         THEN [plugins |-> Q, err |-> Nil]
         ELSE [plugins |-> Q, err |-> Decide(s, Q[p])]
    ELSE [plugins |-> P, err |-> Decide(s, P[p])]

(***************************************************************************)
(* Initial states                                                          *)
(***************************************************************************)
IdleCalls ==
    /\ pc = [n \in Nodes |-> "idle"]
    /\ rets = [n \in Nodes |-> Nil]
    /\ raceFree = TRUE
    /\ overlapped = FALSE
    /\ init0 = plugins

NoHistory ==
    /\ called = NoParent
    /\ ret = Nil
    /\ validated = {}
    /\ ordered = TRUE

\* Every policy configuration; plugins 1 and 2 take every status and class,
\* plugin 2 nested in plugin 1 or standing alone, deeper plugins external.
Init ==
    /\ cfg \in Validators
    /\ \E st \in [Nodes -> Statuses], cl \in [Nodes -> Classes], alone \in BOOLEAN :
          /\ \A n \in Nodes : n > 2 =>
                /\ cl[n] = ClassExternal
                /\ st[n] \in {SignatureValid, SignatureUnsigned}
          /\ plugins = [n \in Nodes |->
                Plugin(n, IF n = 2 /\ alone THEN NoParent ELSE ChainParent(n),
                       st[n], cl[n])]
    /\ NoHistory
    /\ IdleCalls

\* One policy configuration; every plugin of the tree varies.
TreeStatuses ==
    {SignatureValid, SignatureInternal, SignatureUnsigned, SignatureInvalid}

InitTree ==
    /\ cfg = DefaultValidator
    /\ \E st \in [Nodes -> TreeStatuses], cl \in [Nodes -> {ClassCore, ClassExternal}],
          par \in Shapes :
          plugins = [n \in Nodes |-> Plugin(n, par[n], st[n], cl[n])]
    /\ NoHistory
    /\ IdleCalls

(***************************************************************************)
(* Sequential calls                                                        *)
(***************************************************************************)
Call(p) ==
    LET r == Validate(cfg, plugins, p) IN
    /\ plugins' = r.plugins
    /\ ret' = r.err
    /\ called' = p
    /\ UNCHANGED cfg

ValidateCall(p) ==
    /\ Call(p)
    /\ UNCHANGED <<validated, ordered, pc, rets, raceFree, overlapped, init0>>

Next == \E p \in Nodes : ValidateCall(p)

Spec == Init /\ [][Next]_vars

\* the same call, recording the walk over the tree
TreeValidateCall(p) ==
    /\ Call(p)
    /\ validated' = validated \cup {p}
    /\ ordered' = (ordered /\ (plugins[p].Parent = NoParent \/ plugins[p].Parent \in validated))
    /\ UNCHANGED <<pc, rets, raceFree, overlapped, init0>>

NextTree == \E p \in Nodes : TreeValidateCall(p)

SpecTree == InitTree /\ [][NextTree]_vars

(***************************************************************************)
(* Concurrent calls, at most one per descriptor, interleaved statement by  *)
(* statement.  A call on p writes only p's fields (lines 41-43) and reads  *)
(* only p's and its parent's; a read of the parent that runs while a call  *)
(* on the parent is writing is unsynchronised and sees the old or the new  *)
(* value of each field separately.                                         *)
(***************************************************************************)
InitConc ==
    /\ cfg = DefaultValidator
    /\ \E st \in [Nodes -> TreeStatuses], par \in Shapes :
          plugins = [n \in Nodes |-> Plugin(n, par[n], st[n], ClassExternal)]
    /\ NoHistory
    /\ IdleCalls

Active(n) == pc[n] \notin {"idle", "done"}

\* a call on p that starts now overlaps a call on p's parent or on a child of p
Overlaps(p) ==
    \/ plugins[p].Parent # NoParent /\ Active(plugins[p].Parent)
    \/ \E c \in Nodes : plugins[c].Parent = p /\ Active(c)

Seq0 == UNCHANGED <<cfg, called, ret, validated, ordered, init0>>

\* lines 27-40: entry, the valid check and the choice to inherit
Begin(p) ==
    /\ pc[p] = "idle"
    /\ raceFree' = (raceFree /\ ~Overlaps(p))
    /\ overlapped' = (overlapped \/ \E q \in Nodes : Active(q))
    /\ IF AlreadyValid(plugins[p])
       THEN /\ pc' = [pc EXCEPT ![p] = "done"]
            /\ rets' = [rets EXCEPT ![p] = Nil]
       ELSE /\ pc' = [pc EXCEPT ![p] =
                  IF plugins[p].Parent # NoParent /\ ~KeepsOwnSignature(plugins[p])
                  THEN "l41" ELSE "l51"]
            /\ UNCHANGED rets
    /\ UNCHANGED plugins
    /\ Seq0

\* line 41: plugin.Signature = plugin.Parent.Signature
L41(p) ==
    /\ pc[p] = "l41"
    /\ plugins' = CopySignature(plugins, p)
    /\ pc' = [pc EXCEPT ![p] = "l42"]
    /\ UNCHANGED <<rets, raceFree, overlapped>>
    /\ Seq0

\* line 42: plugin.SignatureType = plugin.Parent.SignatureType
L42(p) ==
    /\ pc[p] = "l42"
    /\ plugins' = CopySignatureType(plugins, p)
    /\ pc' = [pc EXCEPT ![p] = "l43"]
    /\ UNCHANGED <<rets, raceFree, overlapped>>
    /\ Seq0

\* line 43: plugin.SignatureOrg = plugin.Parent.SignatureOrg
L43(p) ==
    /\ pc[p] = "l43"
    /\ plugins' = CopySignatureOrg(plugins, p)
    /\ pc' = [pc EXCEPT ![p] = "l44"]
    /\ UNCHANGED <<rets, raceFree, overlapped>>
    /\ Seq0

\* lines 44-47: the inherited status is valid
L44(p) ==
    /\ pc[p] = "l44"
    /\ IF plugins[p].Signature = SignatureValid
       THEN /\ pc' = [pc EXCEPT ![p] = "done"]
            /\ rets' = [rets EXCEPT ![p] = Nil]
       ELSE /\ pc' = [pc EXCEPT ![p] = "l51"]
            /\ UNCHANGED rets
    /\ UNCHANGED <<plugins, raceFree, overlapped>>
    /\ Seq0

\* lines 51-84: the decision and the return
L51(p) ==
    /\ pc[p] = "l51"
    /\ rets' = [rets EXCEPT ![p] = Decide(cfg, plugins[p])]
    /\ pc' = [pc EXCEPT ![p] = "done"]
    /\ UNCHANGED <<plugins, raceFree, overlapped>>
    /\ Seq0

NextConc ==
    \E p \in Nodes :
        \/ Begin(p)
        \/ L41(p)
        \/ L42(p)
        \/ L43(p)
        \/ L44(p)
        \/ L51(p)

SpecConc == InitConc /\ [][NextConc]_vars

\* The calls of `order`, run one after another from table P.
RECURSIVE SerialRun(_, _, _)
SerialRun(P, R, order) ==
    IF order = <<>> THEN [plugins |-> P, rets |-> R]
    ELSE LET r == Validate(cfg, P, Head(order)) IN
         SerialRun(r.plugins, [R EXCEPT ![Head(order)] = r.err], Tail(order))

Finished == {n \in Nodes : pc[n] = "done"}

Orders(S) ==
    {o \in [1..Cardinality(S) -> S] : \A i, j \in 1..Cardinality(S) : o[i] = o[j] => i = j}

Quiescent == \A n \in Nodes : ~Active(n)

Serializable ==
    \E o \in Orders(Finished) :
        SerialRun(init0, [n \in Nodes |-> Nil], o) = [plugins |-> plugins, rets |-> rets]

(***************************************************************************)
(* Properties                                                              *)
(***************************************************************************)
\* status, signature type and signature organisation of a descriptor
Sig(plugin) == <<plugin.Signature, plugin.SignatureType, plugin.SignatureOrg>>

HasParent(n) == plugins[n].Parent # NoParent

\* C1: a plugin classified core or bundled is always allowed: whatever its
\* status, its parent and the policy configuration, Validate returns nil.
C1_CoreBundledAllowed ==
    \A p \in Nodes :
        (called = p /\ plugins[p].Class \in {ClassCore, ClassBundled}) => ret = Nil

\* a bundled nested plugin left with an invalid signature was allowed
C1_Witness ==
    /\ called \in Nodes
    /\ plugins[called].Class = ClassBundled
    /\ HasParent(called)
    /\ plugins[called].Signature = SignatureInvalid
    /\ plugins[called].SignatureType # TypeOf(called)
    /\ ret = Nil

\* C2: a call on a plugin whose status is Valid returns nil and changes no
\* descriptor, whatever its parent, class and the policy are (so a second
\* call on a child that inherited Valid returns nil and mutates nothing).
C2_ValidAllowedUnchanged ==
    [][\A p \in Nodes :
          (called' = p /\ plugins[p].Signature = SignatureValid) =>
              (ret' = Nil /\ plugins' = plugins)]_vars

\* a valid nested plugin was validated under a parent that is not valid and
\* kept its own signature fields
C2_Witness ==
    /\ called \in Nodes
    /\ HasParent(called)
    /\ plugins[called].Signature = SignatureValid
    /\ plugins[called].SignatureType = TypeOf(called)
    /\ plugins[plugins[called].Parent].Signature = SignatureInvalid
    /\ ret = Nil

\* C3: for a plugin neither core nor bundled whose status after inheritance
\* is Unsigned: with a predicate configured the call returns nil exactly
\* when the predicate accepts; with none, exactly when the environment is
\* development or the plugin ID is in the allow-list; otherwise it returns
\* the error (plugin ID, Unsigned).
C3_UnsignedPolicy ==
    \A p \in Nodes :
        (/\ called = p
         /\ plugins[p].Class = ClassExternal
         /\ plugins[p].Signature = SignatureUnsigned) =>
            /\ cfg.cond # NoCond => (ret = Nil <=> cfg.cond = CondAccept)
            /\ cfg.cond = NoCond =>
                  (ret = Nil <=>
                      \/ cfg.Env = Dev
                      \/ \E i \in DOMAIN cfg.PluginsAllowUnsigned :
                            cfg.PluginsAllowUnsigned[i] = plugins[p].ID)
            /\ ret # Nil => ret = SignatureError(plugins[p].ID, SignatureUnsigned)

\* the predicate rejected an allow-listed unsigned plugin in development mode
C3_Witness ==
    /\ called = 2
    /\ plugins[2].Class = ClassExternal
    /\ plugins[2].Signature = SignatureUnsigned
    /\ cfg.cond = CondReject
    /\ cfg.Env = Dev
    /\ cfg.PluginsAllowUnsigned = <<2, 1>>
    /\ ret = SignatureError(2, SignatureUnsigned)

\* C4: for a plugin neither core nor bundled whose status after inheritance
\* is Invalid or Modified, the call returns the error (plugin ID, that
\* status) under every policy configuration.
C4_InvalidModifiedRejected ==
    \A p \in Nodes :
        (/\ called = p
         /\ plugins[p].Class = ClassExternal
         /\ plugins[p].Signature \in {SignatureInvalid, SignatureModified}) =>
            ret = SignatureError(plugins[p].ID, plugins[p].Signature)

\* an inherited Modified status was rejected although the predicate accepts
\* and the environment is development
C4_Witness ==
    /\ called = 2
    /\ plugins[2].Class = ClassExternal
    /\ plugins[2].Signature = SignatureModified
    /\ plugins[2].SignatureType = TypeOf(1)
    /\ cfg.cond = CondAccept
    /\ cfg.Env = Dev
    /\ ret = SignatureError(2, SignatureModified)

\* C5 as claimed: for every plugin whose status is unrecognized the call
\* returns the error (plugin ID, zero status) and never nil.
C5_AsClaimed ==
    \A p \in Nodes :
        (/\ called = p
         /\ plugins[p].Signature \notin
               {SignatureValid, SignatureInvalid, SignatureModified, SignatureUnsigned}) =>
            ret = SignatureError(plugins[p].ID, ZeroStatus)

\* C5: for a plugin neither core nor bundled whose status after inheritance
\* is unrecognized (Internal included), the call returns the error
\* (plugin ID, zero status) and never nil.
C5_UnrecognizedRejected ==
    \A p \in Nodes :
        (/\ called = p
         /\ plugins[p].Class = ClassExternal
         /\ plugins[p].Signature \notin
               {SignatureValid, SignatureInvalid, SignatureModified, SignatureUnsigned}) =>
            ret = SignatureError(plugins[p].ID, ZeroStatus)

\* an external plugin with an unknown status was rejected with a zero status
\* although the predicate accepts
C5_Witness ==
    /\ called \in Nodes
    /\ plugins[called].Class = ClassExternal
    /\ plugins[called].Signature = SignatureUnknown
    /\ cfg.cond = CondAccept
    /\ ret = SignatureError(called, ZeroStatus)

\* C6: a call on a plugin that has a parent, is not core and whose own status
\* is neither Valid nor Internal overwrites the plugin's status, type and
\* org with the parent's; it returns nil if the parent's status is Valid and
\* otherwise the decision taken on the inherited status.
C6_Inheritance ==
    [][\A p \in Nodes :
          (/\ called' = p
           /\ HasParent(p)
           /\ plugins[p].Class # ClassCore
           /\ plugins[p].Signature \notin {SignatureValid, SignatureInternal}) =>
              LET par == plugins[plugins[p].Parent] IN
              /\ Sig(plugins'[p]) = Sig(par)
              /\ par.Signature = SignatureValid => ret' = Nil
              /\ par.Signature # SignatureValid =>
                    ret' = Decide(cfg, [plugins[p] EXCEPT !.Signature = par.Signature])]_vars

\* an unsigned-by-inheritance plugin holds its parent's three fields and was
\* rejected as unsigned
C6_Witness ==
    /\ called \in Nodes
    /\ HasParent(called)
    /\ plugins[called].SignatureOrg # OrgOf(called)
    /\ Sig(plugins[called]) = Sig(plugins[plugins[called].Parent])
    /\ plugins[called].Signature = SignatureUnsigned
    /\ ret = SignatureError(called, SignatureUnsigned)

\* C7: a call on p changes no other descriptor, never p's ID, parent link or
\* class, and leaves p's status, type and org alone when p has no parent,
\* is core, or has status Internal or Valid.
C7_Frame ==
    [][\A p \in Nodes :
          called' = p =>
              /\ \A q \in Nodes \ {p} : plugins'[q] = plugins[q]
              /\ plugins'[p].ID = plugins[p].ID
              /\ plugins'[p].Parent = plugins[p].Parent
              /\ plugins'[p].Class = plugins[p].Class
              /\ (\/ ~HasParent(p)
                  \/ plugins[p].Class = ClassCore
                  \/ plugins[p].Signature \in {SignatureInternal, SignatureValid}) =>
                    Sig(plugins'[p]) = Sig(plugins[p])]_vars

\* an external plugin with status Internal, nested in a plugin of another
\* status, was validated and kept its own fields
C7_Witness ==
    /\ called \in Nodes
    /\ HasParent(called)
    /\ plugins[called].Class = ClassExternal
    /\ Sig(plugins[called]) = <<SignatureInternal, TypeOf(called), OrgOf(called)>>
    /\ plugins[plugins[called].Parent].Signature = SignatureUnsigned
    /\ ret = SignatureError(called, ZeroStatus)

\* C8 as claimed: over any sequence of calls, once a descriptor has been
\* validated its signature fields never change again.
C8_AsClaimed ==
    [][\A p \in Nodes :
          p \in validated => Sig(plugins'[p]) = Sig(plugins[p])]_vars

\* C8: over a sequence of calls in which no descriptor is validated before
\* its parent, once a descriptor has been validated its signature fields
\* never change again.
C8_Lifecycle ==
    [][\A p \in Nodes :
          (p \in validated /\ ordered') => Sig(plugins'[p]) = Sig(plugins[p])]_vars

\* after a parent-first walk of the whole tree the parent of a plugin that
\* inherited was validated once more
C8_Witness ==
    /\ ordered
    /\ validated = Nodes
    /\ \E p \in Nodes :
          /\ HasParent(p)
          /\ called = plugins[p].Parent
          /\ HasParent(called)
          /\ plugins[p].SignatureType # TypeOf(p)
          /\ plugins[called].SignatureType # TypeOf(called)

\* a plugin that was to inherit: nested, not core, neither Valid nor Internal
\* before the walk
Inheritor(p) ==
    /\ init0[p].Parent # NoParent
    /\ init0[p].Class # ClassCore
    /\ init0[p].Signature \notin {SignatureValid, SignatureInternal}

\* C10: after a walk that validates every node after its parent, every
\* plugin that was to inherit holds its parent's final status, type and org,
\* and a further call on any node changes no field.
C10_ParentFirstWalk ==
    (ordered /\ validated = Nodes) =>
        /\ \A p \in Nodes :
              Inheritor(p) => Sig(plugins[p]) = Sig(plugins[plugins[p].Parent])
        /\ \A q \in Nodes : Validate(cfg, plugins, q).plugins = plugins

\* the walk is over and a plugin holds the fields of its grandparent, which
\* its parent inherited first
C10_Witness ==
    /\ ordered
    /\ validated = Nodes
    /\ \E p \in Nodes :
          /\ Inheritor(p)
          /\ Inheritor(plugins[p].Parent)
          /\ plugins[p].SignatureType = TypeOf(plugins[plugins[p].Parent].Parent)
          /\ plugins[p].Signature # init0[p].Signature

\* C9 as claimed: whatever the interleaving of calls on distinct
\* descriptors, results and final fields are those of the same calls run
\* one after another in some order.
C9_AsClaimed == Quiescent => Serializable

\* C9: if no call runs at the same time as a call on its plugin's parent,
\* results and final fields are those of the same calls run one after
\* another in some order.
C9_SerializableUnlessParentRuns ==
    (Quiescent /\ raceFree) => Serializable

\* two calls ran at the same time, neither on the other's parent, and one of
\* them inherited
C9_Witness ==
    /\ Quiescent
    /\ raceFree
    /\ overlapped
    /\ Cardinality(Finished) >= 2
    /\ \E p \in Finished : plugins[p].SignatureType # TypeOf(p)

====
